---- MODULE Spec2Model ----
(***************************************************************************)
(* Model of geomstats' InvariantMetric (src/geomstats/invariant_metric.py) *)
(* over an exact-arithmetic Lie group: the integer Heisenberg group in     *)
(* vector coordinates (a, b, c) and in its unitriangular matrix form.      *)
(* Arrays are records [ndim, data]; data is a vector, a tuple of rows or a *)
(* tuple of matrices.                                                      *)
(***************************************************************************)
EXTENDS Integers, Sequences, FiniteSets, TLC

\* ------------------------------------------------------------------ bounds

\* Coordinates of the tangent vectors and points drawn as inputs.
MaxCoord == 1
\* Advisories a run may log: calls that would log more are not taken.
MaxAdvisories == 3

\* --------------------------------------------------------- array backend

\* Python's None
None == [none |-> TRUE]

Arr(n, d) == [ndim |-> n, data |-> d]

\* a function over 1..n as the tuple of its values
Tup(f) == f \o <<>>

RECURSIVE SumTo(_, _)
SumTo(f, n) == IF n = 0 THEN 0 ELSE f[n] + SumTo(f, n - 1)

Dot(u, v) == SumTo([k \in 1..Len(u) |-> u[k] * v[k]], Len(u))

\* product of an (n x k) and a (k x m) matrix, both tuples of rows
MatProd(A, B) ==
    Tup([i \in 1..Len(A) |->
        Tup([j \in 1..Len(B[1]) |->
            SumTo([k \in 1..Len(B) |-> A[i][k] * B[k][j]], Len(B))])])

MatT(A) == Tup([j \in 1..Len(A[1]) |-> Tup([i \in 1..Len(A) |-> A[i][j]])])

Neg(v) == Tup([k \in 1..Len(v) |-> -v[k]])

shape(a) ==
    IF a.ndim = 1 THEN <<Len(a.data)>>
    ELSE IF a.ndim = 2 THEN <<Len(a.data), Len(a.data[1])>>
    ELSE <<Len(a.data), Len(a.data[1]), Len(a.data[1][1])>>

\* gs.to_ndarray(x, to_ndim): one leading axis is added when x lacks it
to_ndarray(a, to_ndim) ==
    IF a.ndim = to_ndim - 1 THEN Arr(to_ndim, <<a.data>>) ELSE a

\* gs.to_ndarray(x, to_ndim=2, axis=1) of a 1-D array: shape (n,) -> (n, 1)
to_ndarray_axis1(a) ==
    IF a.ndim = 1 THEN Arr(2, Tup([i \in 1..Len(a.data) |-> <<a.data[i]>>])) ELSE a

\* gs.squeeze(x, axis=0), defined when the leading axis has size 1
squeeze(a) == Arr(a.ndim - 1, a.data[1])

\* gs.transpose(x, axes=(0, 2, 1)) of a 3-D array, x.transpose() of a 2-D one
transpose(a) ==
    IF a.ndim = 3 THEN Arr(3, Tup([k \in 1..Len(a.data) |-> MatT(a.data[k])]))
    ELSE Arr(2, MatT(a.data))

\* gs.matmul with numpy's broadcasting of the batch axis
matmul(a, b) ==
    IF a.ndim = 2 /\ b.ndim = 2 THEN Arr(2, MatProd(a.data, b.data))
    ELSE IF a.ndim = 2 THEN
        Arr(3, Tup([k \in 1..Len(b.data) |-> MatProd(a.data, b.data[k])]))
    ELSE IF b.ndim = 2 THEN
        Arr(3, Tup([k \in 1..Len(a.data) |-> MatProd(a.data[k], b.data)]))
    ELSE
        LET n == IF Len(a.data) > Len(b.data) THEN Len(a.data) ELSE Len(b.data)
            ia(k) == IF Len(a.data) = 1 THEN 1 ELSE k
            ib(k) == IF Len(b.data) = 1 THEN 1 ELSE k
        IN  Arr(3, Tup([k \in 1..n |-> MatProd(a.data[ia(k)], b.data[ib(k)])]))

\* gs.einsum('ij,ij->i', a, b)
einsum_rows(a, b) ==
    Arr(1, Tup([i \in 1..Len(a.data) |-> Dot(a.data[i], b.data[i])]))

\* trace of a square matrix
Tr(A) == SumTo([k \in 1..Len(A) |-> A[k][k]], Len(A))

\* gs.trace of a batch of matrices: one Frobenius value per batch element
trace(a) == Arr(1, Tup([k \in 1..Len(a.data) |-> Tr(a.data[k])]))

\* ------------------------------------------------- 3 x 3 linear algebra

Det2(p, q, r, s) == p * s - q * r

Others(i) == IF i = 1 THEN <<2, 3>> ELSE IF i = 2 THEN <<1, 3>> ELSE <<1, 2>>

Minor(A, i, j) ==
    LET r == Others(i)
        c == Others(j)
    IN  Det2(A[r[1]][c[1]], A[r[1]][c[2]], A[r[2]][c[1]], A[r[2]][c[2]])

Cofactor(A, i, j) ==
    (IF (i + j) % 2 = 0 THEN 1 ELSE -1) * Minor(A, i, j)

Det(A) ==
    A[1][1] * Cofactor(A, 1, 1) + A[1][2] * Cofactor(A, 1, 2)
        + A[1][3] * Cofactor(A, 1, 3)

\* inverse of an integer matrix of determinant +1 or -1 (adjugate / det)
MatInv(A) ==
    Tup([i \in 1..3 |-> Tup([j \in 1..3 |-> Cofactor(A, j, i) * Det(A)])])

\* np.linalg.inv of a matrix or of a batch of matrices
inv(a) ==
    IF a.ndim = 3 THEN Arr(3, Tup([k \in 1..Len(a.data) |-> MatInv(a.data[k])]))
    ELSE Arr(2, MatInv(a.data))

Sign(x) == IF x > 0 THEN 1 ELSE IF x < 0 THEN -1 ELSE 0

\* sign changes along a coefficient sequence, zeros skipped
RECURSIVE SignChanges(_, _)
SignChanges(s, prev) ==
    IF s = <<>> THEN 0
    ELSE IF Head(s) = 0 THEN SignChanges(Tail(s), prev)
    ELSE (IF prev # 0 /\ Head(s) # prev THEN 1 ELSE 0)
            + SignChanges(Tail(s), Head(s))

\* np.linalg.eigvalsh of a symmetric 3 x 3 matrix, each eigenvalue given by
\* its sign.  The characteristic polynomial x^3 - c2 x^2 + c1 x - c0 of a
\* symmetric matrix has only real roots, so Descartes' rule counts them.
eigvalsh(a) ==
    LET A  == a.data
        c2 == Tr(A)
        c1 == Minor(A, 1, 1) + Minor(A, 2, 2) + Minor(A, 3, 3)
        c0 == Det(A)
        nPos  == SignChanges(<<1, Sign(-c2), Sign(c1), Sign(-c0)>>, 0)
        nNull == IF c0 # 0 THEN 0 ELSE IF c1 # 0 THEN 1
                 ELSE IF c2 # 0 THEN 2 ELSE 3
        nNeg  == SignChanges(<<-1, Sign(-c2), Sign(-c1), Sign(-c0)>>, 0)
    IN  Tup([k \in 1..3 |->
            IF k <= nNeg THEN -1 ELSE IF k <= nNeg + nNull THEN 0 ELSE 1])

\* gs.sum(eigenvalues > 0), gs.sum(eigenvalues < 0), gs.sum(eigenvalues == 0)
CountSign(ev, s) == Cardinality({k \in 1..Len(ev) : ev[k] = s})


\* square roots scipy.linalg.sqrtm can return here: symmetric positive
\* definite integer matrices acting on the first two coordinates
SqrtEntries == {-1, 0, 1, 2}

SymMat(a, b, c, d, e, f) == <<<<a, b, c>>, <<b, d, e>>, <<c, e, f>>>>

PosDef(A) == A[1][1] > 0 /\ Minor(A, 3, 3) > 0 /\ Det(A) > 0

SqrtCandidates ==
    {S \in {SymMat(a, b, c, d, e, f) :
                a \in {1, 2}, b \in SqrtEntries, c \in {0},
                d \in {1, 2}, e \in {0}, f \in {1}} : PosDef(S)}

\* scipy.linalg.sqrtm: the principal (positive definite) square root
sqrtm(a) ==
    Arr(2, CHOOSE S \in SqrtCandidates : MatProd(S, S) = a.data)

\* ------------------------------------------- the Lie group collaborator

Eye3 == <<<<1, 0, 0>>, <<0, 1, 0>>, <<0, 0, 1>>>>

\* the object group.identity itself, as opposed to an array equal to it
IdentityRef == [ref |-> "group.identity"]

\* period of the redundant coordinates: regularize wraps each coordinate
\* into -((WrapPeriod - 1) \div 2) .. WrapPeriod \div 2
WrapPeriod == 3

Wrap(c) ==
    LET h == (WrapPeriod - 1) \div 2
    IN  ((c + h) % WrapPeriod) - h

WrapVec(v) == Tup([k \in 1..Len(v) |-> Wrap(v[k])])

HeisenbergGroup(rep, copies) ==
    [dimension |-> 3, point_representation |-> rep,
     regularize_copies |-> copies]

\* the array an argument denotes: group.identity is the zero vector, or the
\* unit matrix under matrix representation
identity(g) ==
    IF g.point_representation = "vector" THEN Arr(1, <<0, 0, 0>>)
    ELSE Arr(2, Eye3)

Deref(g, p) == IF p = IdentityRef THEN identity(g) ELSE p

\* group law of the Heisenberg group in the coordinates (a, b, c)
HeisMul(u, v) == <<u[1] + v[1], u[2] + v[2], u[3] + v[3] + u[1] * v[2]>>

HeisInv(u) == <<-u[1], -u[2], -u[3] + u[1] * u[2]>>

\* group.compose(a, b), row by row
compose(g, a, b) ==
    LET a2 == to_ndarray(Deref(g, a), 2)
        b2 == to_ndarray(Deref(g, b), 2)
    IN  Arr(2, Tup([i \in 1..Len(a2.data) |-> HeisMul(a2.data[i], b2.data[i])]))

\* group.inverse(a), row by row
inverse(g, a) ==
    LET a2 == to_ndarray(Deref(g, a), 2)
    IN  Arr(2, Tup([i \in 1..Len(a2.data) |-> HeisInv(a2.data[i])]))

\* group.regularize(point): the canonical representative, as a 2-D array;
\* an implementation may hand back its argument when nothing changes
regularize(g, point) ==
    IF point = IdentityRef /\ ~g.regularize_copies THEN IdentityRef
    ELSE LET p2 == to_ndarray(Deref(g, point), 2)
         IN  Arr(2, Tup([i \in 1..Len(p2.data) |-> WrapVec(p2.data[i])]))

\* group.regularize_tangent_vec_at_identity(tangent_vec, metric)
regularize_tangent_vec_at_identity(g, tangent_vec) ==
    LET t2 == to_ndarray(tangent_vec, 2)
    IN  Arr(2, Tup([i \in 1..Len(t2.data) |-> WrapVec(t2.data[i])]))

\* derivative at the identity of q -> p.q (left) or q -> q.p (right)
HeisJacobian(p, left_or_right) ==
    IF left_or_right = "left"
    THEN <<<<1, 0, 0>>, <<0, 1, 0>>, <<0, p[1], 1>>>>
    ELSE <<<<1, 0, 0>>, <<0, 1, 0>>, <<p[2], 0, 1>>>>

\* group.jacobian_translation(point, left_or_right): a (batch, dim, dim)
\* array; under matrix representation left translation by p is X -> p X
jacobian_translation(g, point, left_or_right) ==
    IF g.point_representation = "vector"
    THEN LET p2 == to_ndarray(Deref(g, point), 2)
         IN  Arr(3, Tup([i \in 1..Len(p2.data) |->
                        HeisJacobian(p2.data[i], left_or_right)]))
    ELSE to_ndarray(Deref(g, point), 3)

\* ------------------------------------------------------ InvariantMetric

\* what a call gives back: how it ended, its value, the calls its body made
\* (in order) and the advisories it logged
R(out, val, calls, adv) ==
    [out |-> out, val |-> val, calls |-> calls, adv |-> adv]

Call(fn, args) == [fn |-> fn, args |-> args]

Fns(calls) == {calls[i].fn : i \in 1..Len(calls)}

NewObject ==
    [assigned |-> {}, group |-> None, inner_product_mat_at_identity |-> None,
     left_or_right |-> None, signature |-> None]

\* InvariantMetric.__init__
\* __init__ without the check that a leading batch axis has size 1
InvariantMetric_init_any_batch(group, inner_product_mat_at_identity_arg, left_or_right) ==
    LET f0 == inner_product_mat_at_identity_arg
    IN
    IF f0 = None THEN [out |-> "AttributeError", self |-> NewObject]
    ELSE
    LET f1 == IF f0.ndim = 3 THEN squeeze(f0) ELSE f0
        matrix_shape == shape(f1)
    IN
    IF matrix_shape # <<group.dimension, group.dimension>>
    THEN [out |-> "AssertionError", self |-> NewObject]
    ELSE IF left_or_right \notin {"left", "right"}
    THEN [out |-> "AssertionError", self |-> NewObject]
    ELSE
    LET eigenvalues == eigvalsh(f1)
        n_pos_eigval == CountSign(eigenvalues, 1)
        n_neg_eigval == CountSign(eigenvalues, -1)
        n_null_eigval == CountSign(eigenvalues, 0)
    IN
    IF n_pos_eigval + n_neg_eigval + n_null_eigval # group.dimension
    THEN [out |-> "AssertionError", self |-> NewObject]
    ELSE
    [out |-> "ok",
     self |->
        [assigned |-> {"group", "inner_product_mat_at_identity",
                       "left_or_right", "signature"},
         group |-> group,
         inner_product_mat_at_identity |->
            IF f1 = None THEN Arr(2, Eye3) ELSE f1,
         left_or_right |-> left_or_right,
         signature |-> <<n_pos_eigval, n_null_eigval, n_neg_eigval>>]]

InvariantMetric_init(group, inner_product_mat_at_identity_arg, left_or_right) ==
    LET f0 == inner_product_mat_at_identity_arg
    IN
    IF f0 = None THEN [out |-> "AttributeError", self |-> NewObject]
    ELSE IF f0.ndim = 3 /\ shape(f0)[1] # 1
    THEN [out |-> "AssertionError", self |-> NewObject]
    ELSE
    LET f1 == IF f0.ndim = 3 THEN squeeze(f0) ELSE f0
        matrix_shape == shape(f1)
    IN
    IF matrix_shape # <<group.dimension, group.dimension>>
    THEN [out |-> "AssertionError", self |-> NewObject]
    ELSE IF left_or_right \notin {"left", "right"}
    THEN [out |-> "AssertionError", self |-> NewObject]
    ELSE
    LET eigenvalues == eigvalsh(f1)
        n_pos_eigval == CountSign(eigenvalues, 1)
        n_neg_eigval == CountSign(eigenvalues, -1)
        n_null_eigval == CountSign(eigenvalues, 0)
    IN
    IF n_pos_eigval + n_neg_eigval + n_null_eigval # group.dimension
    THEN [out |-> "AssertionError", self |-> NewObject]
    ELSE
    [out |-> "ok",
     self |->
        [assigned |-> {"group", "inner_product_mat_at_identity",
                       "left_or_right", "signature"},
         group |-> group,
         inner_product_mat_at_identity |->
            IF f1 = None THEN Arr(2, Eye3) ELSE f1,
         left_or_right |-> left_or_right,
         signature |-> <<n_pos_eigval, n_null_eigval, n_neg_eigval>>]]

\* InvariantMetric.inner_product_at_identity
\* inner_product_at_identity logging the advisory only for a form other
\* than the unit matrix
inner_product_at_identity_quiet(self, tangent_vec_a, tangent_vec_b) ==
    IF self.group.point_representation \notin {"vector", "matrix"}
    THEN R("AssertionError", None, <<>>, 0)
    ELSE IF self.group.point_representation = "vector"
    THEN LET a2 == to_ndarray(tangent_vec_a, 2)
             b2 == to_ndarray(tangent_vec_b, 2)
             aux_vec_a == matmul(a2, self.inner_product_mat_at_identity)
             inner_prod == einsum_rows(aux_vec_a, b2)
         IN  R("ok", to_ndarray_axis1(inner_prod), <<>>, 0)
    ELSE LET a3 == to_ndarray(tangent_vec_a, 3)
             b3 == to_ndarray(tangent_vec_b, 3)
             aux_prod == matmul(transpose(a3), b3)
         IN  R("ok", trace(aux_prod), <<>>,
               IF self.inner_product_mat_at_identity = Arr(2, Eye3)
               THEN 0 ELSE 1)

inner_product_at_identity(self, tangent_vec_a, tangent_vec_b) ==
    IF self.group.point_representation \notin {"vector", "matrix"}
    THEN R("AssertionError", None, <<>>, 0)
    ELSE IF self.group.point_representation = "vector"
    THEN LET a2 == to_ndarray(tangent_vec_a, 2)
             b2 == to_ndarray(tangent_vec_b, 2)
             aux_vec_a == matmul(a2, self.inner_product_mat_at_identity)
             inner_prod == einsum_rows(aux_vec_a, b2)
         IN  R("ok", to_ndarray_axis1(inner_prod), <<>>, 0)
    ELSE LET a3 == to_ndarray(tangent_vec_a, 3)
             b3 == to_ndarray(tangent_vec_b, 3)
             aux_prod == matmul(transpose(a3), b3)
         IN  R("ok", trace(aux_prod), <<>>, 1)

\* InvariantMetric.inner_product_matrix
inner_product_matrix(self, base_point_arg) ==
    IF self.group.point_representation = "matrix"
    THEN R("NotImplementedError", None, <<>>, 0)
    ELSE
    LET g == self.group
        bp0 == IF base_point_arg = None THEN IdentityRef ELSE base_point_arg
        base_point == regularize(g, bp0)
        jacobian == jacobian_translation(g, base_point, self.left_or_right)
        calls == <<Call("regularize", <<bp0>>),
                   Call("jacobian_translation",
                        <<base_point, self.left_or_right>>)>>
    IN
    IF jacobian.ndim # 3 THEN R("AssertionError", None, calls, 0)
    ELSE
    LET inv_jacobian == inv(jacobian)
        inv_jacobian_transposed == transpose(inv_jacobian)
        inner_product_mat_at_id ==
            to_ndarray(self.inner_product_mat_at_identity, 2)
        metric_mat == matmul(matmul(inv_jacobian_transposed,
                                    inner_product_mat_at_id), inv_jacobian)
    IN  R("ok", metric_mat, calls, 0)

\* RiemannianMetric.inner_product, the generic inner product of the base
\* class: a G(base_point) b^T with G from inner_product_matrix
RiemannianMetric_inner_product(self, tangent_vec_a, tangent_vec_b, base_point) ==
    LET a2 == to_ndarray(tangent_vec_a, 2)
        b2 == to_ndarray(tangent_vec_b, 2)
        G  == inner_product_matrix(self, base_point)
    IN
    IF G.out # "ok" THEN G
    ELSE
    LET inner_prod_mat == to_ndarray(G.val, 3)
        aux == Tup([n \in 1..Len(a2.data) |->
                    MatProd(<<a2.data[n]>>, inner_prod_mat.data[n])[1]])
        inner_prod == einsum_rows(Arr(2, aux), b2)
    IN  R("ok", to_ndarray_axis1(inner_prod), G.calls, 0)

\* InvariantMetric.inner_product
\* inner_product refusing right-invariant matrix metrics before it looks at
\* the base point
inner_product_right_first(self, tangent_vec_a, tangent_vec_b, base_point) ==
    IF self.group.point_representation = "matrix"
        /\ self.left_or_right = "right"
    THEN R("NotImplementedError", None, <<>>, 0)
    ELSE IF base_point = None
    THEN LET r == inner_product_at_identity(self, tangent_vec_a, tangent_vec_b)
         IN  R(r.out, r.val,
               <<Call("inner_product_at_identity",
                      <<tangent_vec_a, tangent_vec_b>>)>>, r.adv)
    ELSE IF self.group.point_representation = "vector"
    THEN LET r == RiemannianMetric_inner_product(self, tangent_vec_a,
                                                 tangent_vec_b, base_point)
         IN  R(r.out, r.val,
               <<Call("RiemannianMetric.inner_product",
                      <<tangent_vec_a, tangent_vec_b, base_point>>)>>, r.adv)
    ELSE IF self.left_or_right = "right"
    THEN R("NotImplementedError", None, <<>>, 0)
    ELSE
    LET jacobian == jacobian_translation(self.group, base_point, "left")
        inv_jacobian == inv(jacobian)
        tangent_vec_a_at_id == matmul(inv_jacobian, tangent_vec_a)
        tangent_vec_b_at_id == matmul(inv_jacobian, tangent_vec_b)
        r == inner_product_at_identity(self, tangent_vec_a_at_id,
                                       tangent_vec_b_at_id)
    IN  R(r.out, r.val,
          <<Call("jacobian_translation", <<base_point>>),
            Call("inner_product_at_identity",
                 <<tangent_vec_a_at_id, tangent_vec_b_at_id>>)>>, r.adv)

\* inner_product without the refusal of right-invariant metrics
inner_product_unguarded(self, tangent_vec_a, tangent_vec_b, base_point) ==
    IF base_point = None
    THEN LET r == inner_product_at_identity(self, tangent_vec_a, tangent_vec_b)
         IN  R(r.out, r.val,
               <<Call("inner_product_at_identity",
                      <<tangent_vec_a, tangent_vec_b>>)>>, r.adv)
    ELSE IF self.group.point_representation = "vector"
    THEN LET r == RiemannianMetric_inner_product(self, tangent_vec_a,
                                                 tangent_vec_b, base_point)
         IN  R(r.out, r.val,
               <<Call("RiemannianMetric.inner_product",
                      <<tangent_vec_a, tangent_vec_b, base_point>>)>>, r.adv)
    ELSE
    LET jacobian == jacobian_translation(self.group, base_point, "left")
        inv_jacobian == inv(jacobian)
        tangent_vec_a_at_id == matmul(inv_jacobian, tangent_vec_a)
        tangent_vec_b_at_id == matmul(inv_jacobian, tangent_vec_b)
        r == inner_product_at_identity(self, tangent_vec_a_at_id,
                                       tangent_vec_b_at_id)
    IN  R(r.out, r.val,
          <<Call("jacobian_translation", <<base_point>>),
            Call("inner_product_at_identity",
                 <<tangent_vec_a_at_id, tangent_vec_b_at_id>>)>>, r.adv)

inner_product(self, tangent_vec_a, tangent_vec_b, base_point) ==
    IF base_point = None
    THEN LET r == inner_product_at_identity(self, tangent_vec_a, tangent_vec_b)
         IN  R(r.out, r.val,
               <<Call("inner_product_at_identity",
                      <<tangent_vec_a, tangent_vec_b>>)>>, r.adv)
    ELSE IF self.group.point_representation = "vector"
    THEN LET r == RiemannianMetric_inner_product(self, tangent_vec_a,
                                                 tangent_vec_b, base_point)
         IN  R(r.out, r.val,
               <<Call("RiemannianMetric.inner_product",
                      <<tangent_vec_a, tangent_vec_b, base_point>>)>>, r.adv)
    ELSE IF self.left_or_right = "right"
    THEN R("NotImplementedError", None, <<>>, 0)
    ELSE
    LET jacobian == jacobian_translation(self.group, base_point, "left")
        inv_jacobian == inv(jacobian)
        tangent_vec_a_at_id == matmul(inv_jacobian, tangent_vec_a)
        tangent_vec_b_at_id == matmul(inv_jacobian, tangent_vec_b)
        r == inner_product_at_identity(self, tangent_vec_a_at_id,
                                       tangent_vec_b_at_id)
    IN  R(r.out, r.val,
          <<Call("jacobian_translation", <<base_point>>),
            Call("inner_product_at_identity",
                 <<tangent_vec_a_at_id, tangent_vec_b_at_id>>)>>, r.adv)

\* InvariantMetric.left_exp_from_identity
left_exp_from_identity(self, tangent_vec_arg) ==
    LET tangent_vec == regularize_tangent_vec_at_identity(
                           self.group, to_ndarray(tangent_vec_arg, 2))
        sqrt_inner_product_mat == sqrtm(self.inner_product_mat_at_identity)
        mat == transpose(sqrt_inner_product_mat)
        exp == matmul(tangent_vec, mat)
    IN  regularize(self.group, exp)

\* InvariantMetric.exp_from_identity
exp_from_identity(self, tangent_vec_arg) ==
    LET tangent_vec == to_ndarray(tangent_vec_arg, 2)
        exp == IF self.left_or_right = "left"
               THEN left_exp_from_identity(self, tangent_vec)
               ELSE inverse(self.group,
                            left_exp_from_identity(self,
                                Arr(2, Tup([i \in 1..Len(tangent_vec.data) |->
                                            Neg(tangent_vec.data[i])]))))
    IN  regularize(self.group, exp)

\* InvariantMetric.exp_basis
\* exp_basis translating on the left whatever the handedness
exp_basis_left_only(self, tangent_vec_arg, base_point_arg) ==
    LET g == self.group
        bp0 == IF base_point_arg = None THEN IdentityRef ELSE base_point_arg
        base_point == regularize(g, bp0)
        c1 == <<Call("regularize", <<bp0>>)>>
    IN
    IF base_point = IdentityRef
    THEN R("ok", exp_from_identity(self, tangent_vec_arg),
           Append(c1, Call("exp_from_identity", <<tangent_vec_arg>>)), 0)
    ELSE
    LET tangent_vec == to_ndarray(tangent_vec_arg, 2)
        n_tangent_vecs == shape(tangent_vec)[1]
        n_base_points == shape(base_point)[1]
    IN
    IF ~(n_tangent_vecs = 1 /\ n_base_points = 1)
    THEN R("AssertionError", None, c1, 0)
    ELSE
    LET jacobian == jacobian_translation(g, base_point, self.left_or_right)
        c2 == Append(c1, Call("jacobian_translation",
                              <<base_point, self.left_or_right>>))
    IN
    IF jacobian.ndim # 3 THEN R("AssertionError", None, c2, 0)
    ELSE
    LET inv_jacobian == inv(jacobian)
        inv_jacobian_transposed == transpose(inv_jacobian)
        tangent_vec_at_id ==
            squeeze(matmul(tangent_vec, inv_jacobian_transposed))
        exp_from_id == exp_from_identity(self, tangent_vec_at_id)
        c3 == Append(c2, Call("exp_from_identity", <<tangent_vec_at_id>>))
        args == <<base_point, exp_from_id>>
        exp == compose(g, args[1], args[2])
        c4 == Append(c3, Call("compose", args))
    IN  R("ok", regularize(g, exp), Append(c4, Call("regularize", <<exp>>)), 0)

exp_basis(self, tangent_vec_arg, base_point_arg) ==
    LET g == self.group
        bp0 == IF base_point_arg = None THEN IdentityRef ELSE base_point_arg
        base_point == regularize(g, bp0)
        c1 == <<Call("regularize", <<bp0>>)>>
    IN
    IF base_point = IdentityRef
    THEN R("ok", exp_from_identity(self, tangent_vec_arg),
           Append(c1, Call("exp_from_identity", <<tangent_vec_arg>>)), 0)
    ELSE
    LET tangent_vec == to_ndarray(tangent_vec_arg, 2)
        n_tangent_vecs == shape(tangent_vec)[1]
        n_base_points == shape(base_point)[1]
    IN
    IF ~(n_tangent_vecs = 1 /\ n_base_points = 1)
    THEN R("AssertionError", None, c1, 0)
    ELSE
    LET jacobian == jacobian_translation(g, base_point, self.left_or_right)
        c2 == Append(c1, Call("jacobian_translation",
                              <<base_point, self.left_or_right>>))
    IN
    IF jacobian.ndim # 3 THEN R("AssertionError", None, c2, 0)
    ELSE
    LET inv_jacobian == inv(jacobian)
        inv_jacobian_transposed == transpose(inv_jacobian)
        tangent_vec_at_id ==
            squeeze(matmul(tangent_vec, inv_jacobian_transposed))
        exp_from_id == exp_from_identity(self, tangent_vec_at_id)
        c3 == Append(c2, Call("exp_from_identity", <<tangent_vec_at_id>>))
        args == IF self.left_or_right = "left"
                THEN <<base_point, exp_from_id>>
                ELSE <<exp_from_id, base_point>>
        exp == compose(g, args[1], args[2])
        c4 == Append(c3, Call("compose", args))
    IN  R("ok", regularize(g, exp), Append(c4, Call("regularize", <<exp>>)), 0)

\* InvariantMetric.left_log_from_identity
left_log_from_identity(self, point_arg) ==
    LET point == regularize(self.group, point_arg)
        inner_prod_mat == self.inner_product_mat_at_identity
        sqrt_inv_inner_prod_mat == sqrtm(inv(inner_prod_mat))
        log == matmul(point, transpose(sqrt_inv_inner_prod_mat))
    IN  regularize_tangent_vec_at_identity(self.group, log)

\* InvariantMetric.log_from_identity
\* log_from_identity with the sign of the right logarithm lost
log_from_identity_unnegated(self, point_arg) ==
    LET point == regularize(self.group, point_arg)
    IN  IF self.left_or_right = "left"
        THEN left_log_from_identity(self, point)
        ELSE LET inv_point == inverse(self.group, point)
                 left_log == left_log_from_identity(self, inv_point)
             IN  left_log

log_from_identity(self, point_arg) ==
    LET point == regularize(self.group, point_arg)
    IN  IF self.left_or_right = "left"
        THEN left_log_from_identity(self, point)
        ELSE LET inv_point == inverse(self.group, point)
                 left_log == left_log_from_identity(self, inv_point)
             IN  Arr(2, Tup([i \in 1..Len(left_log.data) |->
                            Neg(left_log.data[i])]))

\* InvariantMetric.log_basis
\* log_basis checking the batch sizes only after inverting the base point
log_basis_late_assert(self, point_arg, base_point_arg) ==
    LET g == self.group
        bp0 == IF base_point_arg = None THEN IdentityRef ELSE base_point_arg
        base_point == regularize(g, bp0)
        c1 == <<Call("regularize", <<bp0>>)>>
    IN
    IF base_point = IdentityRef
    THEN R("ok", log_from_identity(self, point_arg),
           Append(c1, Call("log_from_identity", <<point_arg>>)), 0)
    ELSE
    LET point == regularize(g, point_arg)
        c2 == Append(c1, Call("regularize", <<point_arg>>))
        n_points == shape(point)[1]
        n_base_points == shape(base_point)[1]
    IN
    IF ~(n_points = 1 /\ n_base_points = 1)
    THEN R("AssertionError", None,
           Append(c2, Call("inverse", <<base_point>>)), 0)
    ELSE
    LET inv_base_point == inverse(g, base_point)
        c3 == Append(c2, Call("inverse", <<base_point>>))
        args == IF self.left_or_right = "left"
                THEN <<inv_base_point, point>>
                ELSE <<point, inv_base_point>>
        point_near_id == compose(g, args[1], args[2])
        c4 == Append(c3, Call("compose", args))
        log_from_id == log_from_identity(self, point_near_id)
        c5 == Append(c4, Call("log_from_identity", <<point_near_id>>))
        jacobian == jacobian_translation(g, base_point, self.left_or_right)
        c6 == Append(c5, Call("jacobian_translation",
                              <<base_point, self.left_or_right>>))
        log == squeeze(matmul(log_from_id, transpose(jacobian)))
    IN
    IF log.ndim # 2 THEN R("AssertionError", None, c6, 0)
    ELSE R("ok", log, c6, 0)

log_basis(self, point_arg, base_point_arg) ==
    LET g == self.group
        bp0 == IF base_point_arg = None THEN IdentityRef ELSE base_point_arg
        base_point == regularize(g, bp0)
        c1 == <<Call("regularize", <<bp0>>)>>
    IN
    IF base_point = IdentityRef
    THEN R("ok", log_from_identity(self, point_arg),
           Append(c1, Call("log_from_identity", <<point_arg>>)), 0)
    ELSE
    LET point == regularize(g, point_arg)
        c2 == Append(c1, Call("regularize", <<point_arg>>))
        n_points == shape(point)[1]
        n_base_points == shape(base_point)[1]
    IN
    IF ~(n_points = 1 /\ n_base_points = 1)
    THEN R("AssertionError", None, c2, 0)
    ELSE
    LET inv_base_point == inverse(g, base_point)
        c3 == Append(c2, Call("inverse", <<base_point>>))
        args == IF self.left_or_right = "left"
                THEN <<inv_base_point, point>>
                ELSE <<point, inv_base_point>>
        point_near_id == compose(g, args[1], args[2])
        c4 == Append(c3, Call("compose", args))
        log_from_id == log_from_identity(self, point_near_id)
        c5 == Append(c4, Call("log_from_identity", <<point_near_id>>))
        jacobian == jacobian_translation(g, base_point, self.left_or_right)
        c6 == Append(c5, Call("jacobian_translation",
                              <<base_point, self.left_or_right>>))
        log == squeeze(matmul(log_from_id, transpose(jacobian)))
    IN
    IF log.ndim # 2 THEN R("AssertionError", None, c6, 0)
    ELSE R("ok", log, c6, 0)

\* ------------------------------------------------------- state machine

VARIABLES
    group,          \* the Lie group the metric is built on
    metric,         \* the InvariantMetric object: fields, and which are assigned
    pc,             \* "new", "ready", "failed" (__init__ raised), "called"
    last,           \* the last call: operation, arguments, outcome, calls made
    n_advisories    \* advisories logged so far

vars == <<group, metric, pc, last, n_advisories>>

NoCall ==
    [op |-> "none", args |-> <<>>, out |-> "none", val |-> None,
     calls |-> <<>>, adv |-> 0]

Done(op, args, r) ==
    [op |-> op, args |-> args, out |-> r.out, val |-> r.val,
     calls |-> r.calls, adv |-> r.adv]

\* identity-frame forms handed to the constructor
MatS2 == <<<<5, 3, 0>>, <<3, 2, 0>>, <<0, 0, 1>>>>

Eye4 == <<<<1, 0, 0, 0>>, <<0, 1, 0, 0>>, <<0, 0, 1, 0>>, <<0, 0, 0, 1>>>>

GoodForms == {Arr(2, Eye3), Arr(3, <<MatS2>>)}

Forms ==
    GoodForms \cup {None, Arr(2, MatS2), Arr(3, <<Eye3, MatS2>>),
                    Arr(2, Eye4), Arr(3, <<Eye4>>)}

Handedness == {"left", "right", "up"}

\* tangent vectors and points drawn as inputs
Coords == -MaxCoord..MaxCoord

CubeVecs == {Arr(1, <<a, b, c>>) : a \in Coords, b \in Coords, c \in Coords}

\* base points of the single calls: the default, the identity object and
\* points off the identity
CubePoints ==
    {None, IdentityRef, Arr(1, <<-1, -1, 1>>)} \cup
    {Arr(1, <<a, b, c>>) : a \in 0..MaxCoord, b \in 0..MaxCoord,
                           c \in 0..MaxCoord}

SampleVecs ==
    {Arr(1, <<1, 0, 0>>), Arr(1, <<0, 1, 1>>), Arr(2, <<<<1, 1, 0>>>>),
     Arr(2, <<<<1, 0, 0>>, <<0, 1, 0>>>>)}

SampleMats ==
    {Arr(2, <<<<0, 1, 1>>, <<0, 0, 1>>, <<0, 0, 0>>>>),
     Arr(3, <<<<<<0, 0, 1>>, <<0, 0, 1>>, <<0, 0, 0>>>>>>)}

\* single tangent vectors in the group's representation
Tangents(g) ==
    IF g.point_representation = "vector"
    THEN {Arr(1, <<0, 1, 1>>), Arr(2, <<<<1, 1, 0>>>>)}
    ELSE SampleMats

\* single base points in the group's representation, None for the default
BasePoints(g) ==
    {None, IdentityRef, identity(g)} \cup
    IF g.point_representation = "vector"
    THEN {Arr(1, <<1, 1, 0>>), Arr(2, <<<<0, 1, 1>>>>)}
    ELSE {Arr(2, <<<<1, 1, 0>>, <<0, 1, 1>>, <<0, 0, 1>>>>)}

SamplePoints ==
    {None, IdentityRef, Arr(1, <<0, 0, 0>>), Arr(1, <<1, 1, 0>>),
     Arr(2, <<<<0, 1, 1>>>>), Arr(2, <<<<1, 0, 0>>, <<0, 1, 0>>>>)}

Init ==
    /\ group \in {HeisenbergGroup(rep, copies) :
                    rep \in {"vector", "matrix"}, copies \in BOOLEAN}
    /\ metric = NewObject
    /\ pc = "new"
    /\ last = NoCall
    /\ n_advisories = 0

\* InvariantMetric(group, form, left_or_right)
Construct(forms) ==
    /\ pc = "new"
    /\ \E form \in forms, lr \in Handedness :
        LET r == InvariantMetric_init(group, form, lr)
        IN  /\ metric' = r.self
            /\ pc' = IF r.out = "ok" THEN "ready" ELSE "failed"
            /\ last' = [op |-> "__init__", args |-> <<form, lr>>,
                        out |-> r.out, val |-> None, calls |-> <<>>, adv |-> 0]
    /\ UNCHANGED <<group, n_advisories>>

\* a call of a method on the constructed metric, ending as r
\* a call that stores the metric matrix it transported in the metric
Called_caching(op, args, r, next_pc) ==
    /\ n_advisories + r.adv <= MaxAdvisories
    /\ last' = Done(op, args, r)
    /\ n_advisories' = n_advisories + r.adv
    /\ metric' = IF op = "inner_product_matrix" /\ r.out = "ok"
                 THEN [metric EXCEPT !.inner_product_mat_at_identity =
                                        squeeze(r.val)]
                 ELSE metric
    /\ pc' = next_pc
    /\ UNCHANGED group

Called(op, args, r, next_pc) ==
    /\ n_advisories + r.adv <= MaxAdvisories
    /\ last' = Done(op, args, r)
    /\ n_advisories' = n_advisories + r.adv
    /\ metric' = metric
    /\ pc' = next_pc
    /\ UNCHANGED group

InnerProductAtIdentity ==
    /\ pc = "ready"
    /\ \E a \in Tangents(group), b \in Tangents(group) :
        Called("inner_product_at_identity", <<a, b>>,
               inner_product_at_identity(metric, a, b), "ready")

InnerProduct ==
    /\ pc = "ready"
    /\ \E a \in Tangents(group), b \in Tangents(group),
          bp \in BasePoints(group) :
        Called("inner_product", <<a, b, bp>>,
               inner_product(metric, a, b, bp), "ready")

InnerProductMatrix ==
    /\ pc = "ready"
    /\ \E bp \in BasePoints(group) :
        Called("inner_product_matrix", <<bp>>,
               inner_product_matrix(metric, bp), "ready")

\* the exponential and logarithm maps take points in vector representation
ExpFromIdentity(vecs, next_pc) ==
    /\ pc = "ready"
    /\ group.point_representation = "vector"
    /\ \E v \in vecs :
        Called("exp_from_identity", <<v>>,
               R("ok", exp_from_identity(metric, v), <<>>, 0), next_pc)

ExpBasis(vecs, points, next_pc) ==
    /\ pc = "ready"
    /\ group.point_representation = "vector"
    /\ \E v \in vecs, bp \in points :
        Called("exp_basis", <<v, bp>>, exp_basis(metric, v, bp), next_pc)

LogFromIdentity(points, next_pc) ==
    /\ pc = "ready"
    /\ group.point_representation = "vector"
    /\ \E p \in points :
        Called("log_from_identity", <<p>>,
               R("ok", log_from_identity(metric, p), <<>>, 0), next_pc)

LogBasis(points, base_points, next_pc) ==
    /\ pc = "ready"
    /\ group.point_representation = "vector"
    /\ \E p \in points, bp \in base_points :
        Called("log_basis", <<p, bp>>, log_basis(metric, p, bp), next_pc)

\* any sequence of calls on one metric, inputs drawn from the samples
Next ==
    \/ Construct(Forms)
    \/ InnerProductAtIdentity
    \/ InnerProduct
    \/ InnerProductMatrix
    \/ ExpFromIdentity(SampleVecs, "ready")
    \/ ExpBasis(SampleVecs, SamplePoints, "ready")
    \/ LogFromIdentity(SampleVecs, "ready")
    \/ LogBasis(SampleVecs, SamplePoints, "ready")

Spec == Init /\ [][Next]_vars

\* one call of exp_basis or log_basis on each metric, inputs drawn from the
\* whole cube of coordinates
NextMaps ==
    \/ Construct(GoodForms)
    \/ ExpBasis(CubeVecs, CubePoints, "called")
    \/ LogBasis(CubeVecs, CubePoints, "called")

SpecMaps == Init /\ [][NextMaps]_vars

\* --------------------------------------------------------------- claims

\* the single rows of an argument equal the group identity
IsIdentityValue(a) ==
    a \notin {None, IdentityRef}
        /\ to_ndarray(a, 2) = to_ndarray(identity(group), 2)

\* the base point of a call is the group identity: defaulted, the identity
\* object, or an array equal to it
IsIdentityBase(bp) == bp \in {None, IdentityRef} \/ IsIdentityValue(bp)

BatchSize(a) == shape(to_ndarray(a, 2))[1]

\* the call of fn recorded in a sequence of calls
TheCall(calls, fn) ==
    calls[CHOOSE i \in 1..Len(calls) : calls[i].fn = fn]

TransportFns == {"jacobian_translation", "inverse", "compose"}

\* C1: at the identity base point, explicit or defaulted, exp_basis and
\* log_basis return exactly the identity-based result, and their bodies call
\* nothing of the transport path (jacobian_translation, inverse, compose).
C1_BasePointReduction ==
    (last.op \in {"exp_basis", "log_basis"} /\ IsIdentityBase(last.args[2])) =>
        /\ last.out = "ok"
        /\ Fns(last.calls) \cap TransportFns = {}
        /\ last.val = IF last.op = "exp_basis"
                      THEN exp_from_identity(metric, last.args[1])
                      ELSE log_from_identity(metric, last.args[1])

\* the tangent vector exp_from_identity was called with lies in the range
\* regularize_tangent_vec_at_identity leaves alone (for a right-invariant
\* metric, its opposite does): the exponential is not wrapped
ExpInRegion ==
    LET w == to_ndarray(TheCall(last.calls, "exp_from_identity").args[1], 2)
        t == IF metric.left_or_right = "left" THEN w
             ELSE Arr(2, <<Neg(w.data[1])>>)
    IN  regularize_tangent_vec_at_identity(group, t) = t

\* the point is its own canonical representative
IsCanonical(q) == regularize(group, q) = to_ndarray(q, 2)

\* C2: exp/log round trip in vector representation, for either handedness
\* and any base point: log_basis(exp_basis(v, p), p) = v where the
\* exponential is not wrapped, and exp_basis(log_basis(q, p), p) = q for
\* canonical points q.
C2_RoundTrip ==
    /\ (last.op = "exp_basis" /\ last.out = "ok" /\ ExpInRegion) =>
            log_basis(metric, last.val, last.args[2]).val
                = to_ndarray(last.args[1], 2)
    /\ (last.op = "log_basis" /\ last.out = "ok" /\ IsCanonical(last.args[1])) =>
            exp_basis(metric, last.val, last.args[2]).val
                = to_ndarray(last.args[1], 2)

\* a round trip at a base point with a non-trivial Jacobian, right-invariant
\* metric, form other than the unit matrix
C2_Witness ==
    /\ last.op = "exp_basis" /\ last.out = "ok"
    /\ last.args[2] = Arr(1, <<1, 1, 0>>)
    /\ last.args[1] = Arr(1, <<1, -1, 1>>)
    /\ metric.left_or_right = "right"
    /\ metric.inner_product_mat_at_identity = Arr(2, MatS2)
    /\ ExpInRegion
    /\ log_basis(metric, last.val, last.args[2]).val = Arr(2, <<<<1, -1, 1>>>>)

\* C3: construction without a form succeeds for either handedness and gives
\* the unit matrix as form and the signature (dimension, 0, 0).
C3_DefaultForm ==
    (last.op = "__init__" /\ last.args[1] = None
        /\ last.args[2] \in {"left", "right"}) =>
        /\ last.out = "ok"
        /\ metric.inner_product_mat_at_identity = Arr(2, Eye3)
        /\ metric.signature = <<group.dimension, 0, 0>>

\* C4: a (1, d, d) form is squeezed and accepted; a 3-D form with another
\* leading size, or a form whose shape is not (d, d), makes construction
\* fail; a failed construction has assigned no field of the metric.
C4_ShapeValidation ==
    LET d == group.dimension
    IN
    /\ last.op = "__init__" =>
        LET form == last.args[1]
        IN  /\ (form # None /\ shape(form) = <<1, d, d>>
                    /\ last.args[2] \in {"left", "right"}) =>
                    /\ last.out = "ok"
                    /\ metric.inner_product_mat_at_identity
                            = Arr(2, form.data[1])
            /\ (form # None /\ form.ndim = 3 /\ shape(form)[1] # 1) =>
                    last.out # "ok"
            /\ (form # None /\ form.ndim = 2 /\ shape(form) # <<d, d>>) =>
                    last.out # "ok"
            /\ last.out # "ok" => (pc = "failed" /\ metric = NewObject)
    /\ pc = "failed" => metric.assigned = {}
    /\ pc = "ready" => shape(metric.inner_product_mat_at_identity) = <<d, d>>

\* a (2, d, d) form was refused
C4_Witness ==
    /\ last.op = "__init__"
    /\ last.args[1] # None
    /\ shape(last.args[1]) = <<2, 3, 3>>
    /\ last.out = "AssertionError"
    /\ metric.assigned = {}

\* inner_product did nothing but hand its two vectors to
\* inner_product_at_identity
Delegated ==
    /\ last.out = "ok"
    /\ last.calls = <<Call("inner_product_at_identity",
                           <<last.args[1], last.args[2]>>)>>
    /\ last.val = inner_product_at_identity(metric, last.args[1],
                                            last.args[2]).val

\* C5 as stated: inner_product delegates to inner_product_at_identity when
\* the base point is unspecified or equals the group identity.
C5_DelegatesAtIdentity ==
    (last.op = "inner_product" /\ IsIdentityBase(last.args[3])) => Delegated

\* C5 amended: inner_product delegates to inner_product_at_identity when the
\* base point is unspecified (None), for both representations and both
\* handedness values.
C5_DelegatesAtNone ==
    (last.op = "inner_product" /\ last.args[3] = None) => Delegated

\* delegation under matrix representation with a right-invariant metric
C5_Witness ==
    /\ last.op = "inner_product" /\ last.args[3] = None
    /\ group.point_representation = "matrix"
    /\ metric.left_or_right = "right"
    /\ Delegated

\* a call that broke a shape or batch-size requirement
ShapeViolation ==
    \/ /\ last.op = "__init__"
       /\ last.args[1] # None
       /\ shape(last.args[1]) \notin {<<3, 3>>, <<1, 3, 3>>}
    \/ /\ last.op \in {"exp_basis", "log_basis"}
       /\ ~IsIdentityBase(last.args[2])
       /\ (BatchSize(last.args[1]) # 1 \/ BatchSize(last.args[2]) # 1)

\* C6: matrix representation, right-invariant metric, explicit base point:
\* inner_product fails with NotImplementedError before any Jacobian is
\* computed, and shape or batch-size violations fail with another kind.
C6_RightMatrixNotImplemented ==
    /\ (last.op = "inner_product" /\ group.point_representation = "matrix"
            /\ metric.left_or_right = "right" /\ last.args[3] # None) =>
            /\ last.out = "NotImplementedError"
            /\ last.calls = <<>>
            /\ last.val = None
    /\ ShapeViolation => last.out \notin {"ok", "NotImplementedError"}

C6_Witness ==
    /\ last.op = "inner_product" /\ group.point_representation = "matrix"
    /\ metric.left_or_right = "right" /\ last.args[3] = IdentityRef
    /\ last.out = "NotImplementedError"

\* C7: at a non-identity base point exp_basis and log_basis fail, without a
\* result, when either argument has a batch size other than 1, and have
\* called nothing on the group but regularize.
C7_BatchSizeOne ==
    (last.op \in {"exp_basis", "log_basis"}
        /\ ~IsIdentityBase(last.args[2])
        /\ (BatchSize(last.args[1]) # 1 \/ BatchSize(last.args[2]) # 1)) =>
        /\ last.out = "AssertionError"
        /\ last.val = None
        /\ Fns(last.calls) \subseteq {"regularize"}

C7_Witness ==
    /\ last.op = "log_basis"
    /\ BatchSize(last.args[1]) = 2
    /\ last.args[2] = Arr(1, <<1, 1, 0>>)
    /\ last.out = "AssertionError"

\* C8: once constructed (or once construction failed), no call, succeeding
\* or failing, in any order, changes the metric's group,
\* inner_product_mat_at_identity, left_or_right or signature.
C8_Immutable == [][pc # "new" => metric' = metric]_vars

\* a call returned on a constructed metric, which still has its four fields
C8_Witness ==
    /\ pc = "ready"
    /\ last.op = "inner_product_matrix" /\ last.out = "ok"
    /\ metric.assigned = {"group", "inner_product_mat_at_identity",
                          "left_or_right", "signature"}

\* C9 as stated: the advisory is emitted at most once in total.
C9_AdvisoryOnce == n_advisories <= 1

\* the call made by this step ran inner_product_at_identity
RanAtIdentity ==
    \/ last'.op = "inner_product_at_identity"
    \/ last'.op = "inner_product"
        /\ "inner_product_at_identity" \in Fns(last'.calls)

\* C9 amended: under matrix representation every inner_product_at_identity
\* call, direct or through inner_product, emits the advisory once (once per
\* call, not once in total), and the call still returns.
C9_AdvisoryPerCall ==
    [][(group.point_representation = "matrix" /\ RanAtIdentity) =>
            (n_advisories' = n_advisories + 1 /\ last'.out = "ok")]_vars

\* a second advisory from a second call that returned
C9_Witness ==
    /\ n_advisories = 2
    /\ last.op = "inner_product_at_identity"
    /\ last.out = "ok"

\* C10: at a non-identity base point p the side of translation is the
\* metric's handedness: exp_basis returns regularize(compose(p, e)) for
\* left and regularize(compose(e, p)) for right, e the identity exponential
\* of the pulled-back vector; log_basis takes the identity logarithm of
\* compose(inverse(p), q) for left and of compose(q, inverse(p)) for right;
\* both use jacobian_translation(p, left_or_right).
C10_TranslationSide ==
    (last.op \in {"exp_basis", "log_basis"} /\ last.out = "ok"
        /\ "compose" \in Fns(last.calls)) =>
        LET lr == metric.left_or_right
            p == regularize(group, IF last.args[2] = None THEN IdentityRef
                                   ELSE last.args[2])
            J == jacobian_translation(group, p, lr)
            composed == TheCall(last.calls, "compose").args
        IN  /\ TheCall(last.calls, "jacobian_translation").args = <<p, lr>>
            /\ last.op = "exp_basis" =>
                LET pulled == squeeze(matmul(to_ndarray(last.args[1], 2),
                                             transpose(inv(J))))
                    e == exp_from_identity(metric, pulled)
                IN  /\ composed = IF lr = "left" THEN <<p, e>> ELSE <<e, p>>
                    /\ last.val = regularize(group,
                            IF lr = "left" THEN compose(group, p, e)
                            ELSE compose(group, e, p))
            /\ last.op = "log_basis" =>
                LET q == regularize(group, last.args[1])
                    ip == inverse(group, p)
                    near == IF lr = "left" THEN compose(group, ip, q)
                            ELSE compose(group, q, ip)
                IN  /\ composed = IF lr = "left" THEN <<ip, q>> ELSE <<q, ip>>
                    /\ TheCall(last.calls, "log_from_identity").args = <<near>>
                    /\ last.val = squeeze(matmul(
                            log_from_identity(metric, near), transpose(J)))

\* a right translation whose left counterpart gives another point
C10_Witness ==
    /\ last.op = "exp_basis" /\ last.out = "ok"
    /\ metric.left_or_right = "right"
    /\ "compose" \in Fns(last.calls)
    /\ LET c == TheCall(last.calls, "compose").args
       IN  regularize(group, compose(group, c[1], c[2]))
                # regularize(group, compose(group, c[2], c[1]))

====
